---------------------------- MODULE Spec2Model ----------------------------
(***************************************************************************)
(* A model of ran.py, the VOX chart lane randomizer.                       *)
(*                                                                         *)
(* A text line is a sequence of one-character strings, a file a sequence   *)
(* of lines (without their line terminators).  A Python list object is a   *)
(* buffer id into heap, so that "the same list" and "an equal list" are    *)
(* different things, as they are in the program.  A function of the        *)
(* program that can raise returns a record [err, val]; err = "none" when   *)
(* it returns normally.                                                    *)
(***************************************************************************)
EXTENDS Integers, Sequences, FiniteSets, TLC

VARIABLES
    file,             \* the lines of the input file, as stored on disk
    exists,           \* os.path.exists(file_path)
    s_random,         \* args.s_random
    pc,               \* position in main, or in the caller of a function
    outcome,          \* how the run ended: a report, or the exception raised
    full_content,     \* main: the stripped lines of the input
    beat_info,        \* parse_beat_info's result
    end_position,     \* get_end_position's result, <<>> for None
    timestamps,       \* generate_timestamps' result
    track_data,       \* track key -> buffer id
    heap,             \* buffer id -> the list's lines
    structured_notes, \* parse_notes_in_tracks' result
    dir_created,      \* create_directory_for_files has run
    idx,              \* iterations of the exhaustive loop done so far
    calls,            \* the write_to_file calls: suffix and mapping handed over
    new_track_data,   \* the mapping built by the last loop iteration
    output,           \* the lines of the file written last
    randomized_order, \* randomize_tracks' second result
    ncalls            \* calls of randomize_tracks made so far

vars == <<file, exists, s_random, pc, outcome, full_content, beat_info,
          end_position, timestamps, track_data, heap, structured_notes,
          dir_created, idx, calls, new_track_data, output, randomized_order,
          ncalls>>

----------------------------------------------------------------------------
(* Bounds of the model. *)

\* longest track part of an input file of the main run
MaxBodyLen == 2
\* longest input file of the parse/write round trip
MaxLines == 3
\* longest list of raw lines handed to parse_notes_in_tracks
MaxNotes == 2
\* largest measure of a terminal position or of a beat-info entry
MaxMeasure == 2
\* most calls of randomize_tracks on one mapping
MaxRandomCalls == 2

----------------------------------------------------------------------------
(* Python's str and list operations. *)

Whitespace == {" ", "\t", "\n", "\r"}

DigitChars == <<"0", "1", "2", "3", "4", "5", "6", "7", "8", "9">>

IsDigit(c) == \E i \in 1..10 : DigitChars[i] = c

DigitVal(c) == (CHOOSE i \in 1..10 : DigitChars[i] = c) - 1

RECURSIVE lstrip(_)
lstrip(s) ==
    IF s # <<>> /\ Head(s) \in Whitespace THEN lstrip(Tail(s)) ELSE s

RECURSIVE rstrip(_)
rstrip(s) ==
    IF s # <<>> /\ s[Len(s)] \in Whitespace
    THEN rstrip(SubSeq(s, 1, Len(s) - 1))
    ELSE s

\* str.strip()
strip(s) == rstrip(lstrip(s))

\* str.startswith(prefix)
startswith(s, prefix) ==
    Len(s) >= Len(prefix) /\ SubSeq(s, 1, Len(prefix)) = prefix

\* str.split(sep) for a one-character sep: always at least one field
RECURSIVE split(_, _)
split(s, sep) ==
    IF \A i \in 1..Len(s) : s[i] # sep
    THEN <<s>>
    ELSE LET k == CHOOSE i \in 1..Len(s) :
                      s[i] = sep /\ \A j \in 1..(i - 1) : s[j] # sep
         IN  <<SubSeq(s, 1, k - 1)>> \o split(SubSeq(s, k + 1, Len(s)), sep)

RECURSIVE DigitsValue(_)
DigitsValue(s) ==
    IF s = <<>> THEN 0
    ELSE 10 * DigitsValue(SubSeq(s, 1, Len(s) - 1)) + DigitVal(s[Len(s)])

Unsigned(s) == IF s # <<>> /\ Head(s) \in {"+", "-"} THEN Tail(s) ELSE s

\* int(s) returns rather than raising ValueError
IsInt(s) ==
    LET u == Unsigned(strip(s))
    IN  u # <<>> /\ \A i \in 1..Len(u) : IsDigit(u[i])

\* int(s)
ToInt(s) ==
    LET t == strip(s)
    IN  IF t # <<>> /\ Head(t) = "-"
        THEN 0 - DigitsValue(Unsigned(t))
        ELSE DigitsValue(Unsigned(t))

StripAll(lines) == [i \in 1..Len(lines) |-> strip(lines[i])]

----------------------------------------------------------------------------
(* Lines and names of the chart format. *)

TRACK == <<"T", "R", "A", "C", "K">>
HashTrack == <<"#">> \o TRACK
HashEnd == <<"#", "E", "N", "D">>
EndPositionMarker == HashEnd \o <<" ", "P", "O", "S", "I", "T", "I", "O", "N">>
BeatInfoMarker == <<"#", "B", "E", "A", "T", " ", "I", "N", "F", "O">>

TrackNumbers == 1..8

\* f"TRACK{num}"
TrackKey(n) == TRACK \o <<DigitChars[n + 1]>>

TrackKeys == {TrackKey(n) : n \in TrackNumbers}

\* the characters line[6] is looked up in
TrackDigits == {"1", "2", "3", "4", "5", "6", "7", "8"}

\* the mapping parse_file starts from: eight fresh, empty lists
FreshTracks == [k \in TrackKeys |-> CHOOSE n \in TrackNumbers : TrackKey(n) = k]
EmptyHeap == [b \in TrackNumbers |-> <<>>]

\* the condition of the first branch of parse_file and of write_to_file:
\* "raises" when line[6] is past the end of the line
HeaderTest(line) ==
    IF ~startswith(line, HashTrack) THEN "no"
    ELSE IF Len(line) < 7 THEN "IndexError"
    ELSE IF line[7] \in TrackDigits THEN "yes"
    ELSE "no"

----------------------------------------------------------------------------
(* parse_file *)

\* one round of parse_file's loop, st = [err, tracks, heap, current]
ParseLine(st, raw) ==
    LET line == strip(raw)
        test == HeaderTest(line)
    IN  IF st.err # "none" THEN st
        ELSE IF test = "IndexError" THEN [st EXCEPT !.err = "IndexError"]
        ELSE IF test = "yes" THEN [st EXCEPT !.current = Tail(line)]
        ELSE IF startswith(line, HashEnd) THEN [st EXCEPT !.current = <<>>]
        ELSE IF st.current # <<>>
        THEN IF st.current \in DOMAIN st.tracks
             THEN [st EXCEPT !.heap[st.tracks[st.current]] =
                                 Append(@, line)]
             ELSE [st EXCEPT !.err = "KeyError"]
        ELSE st

RECURSIVE ParseLines(_, _)
ParseLines(st, lines) ==
    IF lines = <<>> THEN st
    ELSE ParseLines(ParseLine(st, Head(lines)), Tail(lines))

\* parse_file(filepath) on an existing file: [err, tracks, heap]
parse_file(lines) ==
    LET st == ParseLines([err |-> "none", tracks |-> FreshTracks,
                          heap |-> EmptyHeap, current |-> <<>>], lines)
    IN  [err |-> st.err, tracks |-> st.tracks, heap |-> st.heap]

----------------------------------------------------------------------------
(* write_to_file *)

\* one round of write_to_file's loop, st = [err, out, in_track_section]
WriteLine(st, line, td, hp) ==
    LET test == HeaderTest(line)
    IN  IF st.err # "none" THEN st
        ELSE IF test = "IndexError" THEN [st EXCEPT !.err = "IndexError"]
        ELSE IF test = "yes"
        THEN IF Tail(line) \in DOMAIN td
             THEN [st EXCEPT !.in_track_section = TRUE,
                             !.out = (@ \o <<line>>) \o hp[td[Tail(line)]]]
             ELSE [st EXCEPT !.in_track_section = TRUE,
                             !.out = @ \o <<line>>,
                             !.err = "KeyError"]
        ELSE IF startswith(line, HashEnd) /\ st.in_track_section
        THEN [st EXCEPT !.in_track_section = FALSE, !.out = Append(@, line)]
        ELSE IF ~st.in_track_section
        THEN [st EXCEPT !.out = Append(@, line)]
        ELSE st

RECURSIVE WriteLines(_, _, _, _)
WriteLines(st, lines, td, hp) ==
    IF lines = <<>> THEN st
    ELSE WriteLines(WriteLine(st, Head(lines), td, hp), Tail(lines), td, hp)

\* write_to_file(filepath, track_data, full_content): [err, out], out the
\* lines the file holds when the with block is left
write_to_file(td, hp, content) ==
    LET st == WriteLines([err |-> "none", out |-> <<>>,
                          in_track_section |-> FALSE], content, td, hp)
    IN  [err |-> st.err, out |-> st.out]

----------------------------------------------------------------------------
(* parse_beat_info *)

\* the body of the "elif in_beat_info" branch for a line of >= 3 parts
BeatEntry(parts) ==
    LET measure_info == split(parts[1], ",")
    IN  IF Len(measure_info) # 3
           \/ \E i \in 1..3 : ~IsInt(measure_info[i])
           \/ ~IsInt(parts[2]) \/ ~IsInt(parts[3])
        THEN [err |-> "ValueError", entry |-> <<>>]
        ELSE [err |-> "none",
              entry |-> [measure |-> ToInt(measure_info[1]),
                         beat |-> ToInt(measure_info[2]),
                         tick |-> ToInt(measure_info[3]),
                         beats_per_measure |-> ToInt(parts[2]),
                         ticks_per_beat |-> ToInt(parts[3])]]

\* one round of parse_beat_info's loop, st = [err, in_beat_info, info]
BeatLine(st, raw) ==
    LET line == strip(raw)
        parts == split(line, "\t")
    IN  IF st.err # "none" THEN st
        ELSE IF startswith(line, BeatInfoMarker)
        THEN [st EXCEPT !.in_beat_info = TRUE]
        ELSE IF startswith(line, HashEnd) /\ st.in_beat_info
        THEN [st EXCEPT !.in_beat_info = FALSE]
        ELSE IF st.in_beat_info /\ Len(parts) >= 3
        THEN IF BeatEntry(parts).err # "none"
             THEN [st EXCEPT !.err = BeatEntry(parts).err]
             ELSE [st EXCEPT !.info = Append(@, BeatEntry(parts).entry)]
        ELSE st

RECURSIVE BeatLines(_, _)
BeatLines(st, lines) ==
    IF lines = <<>> THEN st
    ELSE BeatLines(BeatLine(st, Head(lines)), Tail(lines))

\* parse_beat_info(filepath): [err, info]
parse_beat_info(lines) ==
    LET st == BeatLines([err |-> "none", in_beat_info |-> FALSE,
                         info |-> <<>>], lines)
    IN  [err |-> st.err, info |-> st.info]

----------------------------------------------------------------------------
(* get_end_position *)

\* next_line.split(',')[0:3]
FirstThree(fields) == SubSeq(fields, 1, IF Len(fields) < 3 THEN Len(fields) ELSE 3)

\* get_end_position's loop from line i on: [err, pos], pos = <<>> for None
RECURSIVE EndPositionFrom(_, _)
EndPositionFrom(lines, i) ==
    IF i > Len(lines) THEN [err |-> "none", pos |-> <<>>]
    ELSE IF ~startswith(strip(lines[i]), EndPositionMarker)
    THEN EndPositionFrom(lines, i + 1)
    ELSE IF i + 1 > Len(lines) THEN [err |-> "none", pos |-> <<>>]
    ELSE IF startswith(strip(lines[i + 1]), HashEnd)
    THEN EndPositionFrom(lines, i + 1)
    ELSE LET measure_info == FirstThree(split(strip(lines[i + 1]), ","))
         IN  IF Len(measure_info) # 3
                \/ \E k \in 1..Len(measure_info) : ~IsInt(measure_info[k])
             THEN [err |-> "ValueError", pos |-> <<>>]
             ELSE [err |-> "none",
                   pos |-> <<ToInt(measure_info[1]), ToInt(measure_info[2]),
                             ToInt(measure_info[3])>>]

\* get_end_position(filepath)
get_end_position(lines) == EndPositionFrom(lines, 1)

----------------------------------------------------------------------------
(* generate_timestamps *)

ticks_per_beat == 48

\* a comparison that also holds of equal triples
PosGE(p, q) ==
    \/ p[1] > q[1]
    \/ p[1] = q[1] /\ p[2] > q[2]
    \/ p[1] = q[1] /\ p[2] = q[2] /\ p[3] >= q[3]

\* Python's tuple comparison p > q of two triples
PosGT(p, q) ==
    \/ p[1] > q[1]
    \/ p[1] = q[1] /\ p[2] > q[2]
    \/ p[1] = q[1] /\ p[2] = q[2] /\ p[3] > q[3]

RECURSIVE NatDigits(_)
NatDigits(n) ==
    IF n < 10 THEN <<DigitChars[n + 1]>>
    ELSE NatDigits(n \div 10) \o <<DigitChars[(n % 10) + 1]>>

RECURSIVE ZeroPad(_, _)
ZeroPad(s, width) == IF Len(s) >= width THEN s ELSE ZeroPad(<<"0">> \o s, width)

\* f"{n:0w}"
FormatInt(n, width) ==
    IF n < 0 THEN <<"-">> \o ZeroPad(NatDigits(0 - n), width - 1)
    ELSE ZeroPad(NatDigits(n), width)

\* f"{measure:03},{beat:02},{tick:02}"
FormatTimestamp(p) ==
    FormatInt(p[1], 3) \o <<",">> \o FormatInt(p[2], 2) \o <<",">>
        \o FormatInt(p[3], 2)

\* the while loop that moves current_beat_info_index (here counted from 1)
RECURSIVE AdvanceIndex(_, _, _)
AdvanceIndex(info, index, measure) ==
    IF index < Len(info) /\ measure >= info[index + 1].measure
    THEN AdvanceIndex(info, index + 1, measure)
    ELSE index

\* the tick loop of one beat: [ret, ps], ps the positions it appended and
\* ret = TRUE when the function returned in it
RECURSIVE TickLoop(_, _, _, _, _)
TickLoop(ps, measure, beat, tick, end) ==
    IF tick >= ticks_per_beat THEN [ret |-> FALSE, ps |-> ps]
    ELSE IF PosGT(<<measure, beat, tick>>, end) THEN [ret |-> TRUE, ps |-> ps]
    ELSE TickLoop(Append(ps, <<measure, beat, tick>>), measure, beat,
                  tick + 1, end)

\* the beat loop of one measure, from beat on
RECURSIVE BeatLoop(_, _, _, _, _)
BeatLoop(ps, measure, beat, beats_per_measure, end) ==
    IF beat > beats_per_measure THEN [ret |-> FALSE, ps |-> ps]
    ELSE LET r == TickLoop(<<>>, measure, beat, 0, end)
         IN  IF r.ret THEN [ret |-> TRUE, ps |-> ps \o r.ps]
             ELSE BeatLoop(ps \o r.ps, measure, beat + 1, beats_per_measure,
                           end)

\* the measure loop, from measure on
RECURSIVE MeasureLoop(_, _, _, _, _)
MeasureLoop(ps, info, index, measure, end) ==
    IF measure > end[1] THEN [err |-> "none", ps |-> ps]
    ELSE IF info = <<>> THEN [err |-> "IndexError", ps |-> ps]
    ELSE LET i == AdvanceIndex(info, index, measure)
             r == BeatLoop(<<>>, measure, 1, info[i].beats_per_measure, end)
         IN  IF r.ret THEN [err |-> "none", ps |-> ps \o r.ps]
             ELSE MeasureLoop(ps \o r.ps, info, i, measure + 1, end)

\* the positions generate_timestamps emits, before formatting: [err, ps]
GridPositions(info, end) == MeasureLoop(<<>>, info, 1, 1, end)

\* generate_timestamps(beat_info, end_position): [err, ts]
generate_timestamps(info, end) ==
    LET g == GridPositions(info, end)
    IN  [err |-> g.err,
         ts |-> [i \in 1..Len(g.ps) |-> FormatTimestamp(g.ps[i])]]

----------------------------------------------------------------------------
(* parse_notes_in_tracks *)

Unplayable == {TrackKey(1), TrackKey(8)}

\* one round of the inner loop, st = [err, notes]
NoteLine(st, note_line) ==
    LET note_info == split(note_line, "\t")
    IN  IF st.err # "none" THEN st
        ELSE IF Len(note_info) >= 3
        THEN IF Len(note_info) # 3
             THEN [st EXCEPT !.err = "ValueError"]
             ELSE [st EXCEPT !.notes = Append(@,
                      [timestamp |-> note_info[1],
                       type |-> IF note_info[2] = <<"0">> THEN "chip"
                                ELSE "hold"])]
        ELSE st

RECURSIVE NoteLines(_, _)
NoteLines(st, notes) ==
    IF notes = <<>> THEN st
    ELSE NoteLines(NoteLine(st, Head(notes)), Tail(notes))

TrackNotes(notes) == NoteLines([err |-> "none", notes |-> <<>>], notes)

\* parse_notes_in_tracks(track_data): [err, notes]
parse_notes_in_tracks(td, hp) ==
    LET playable == (DOMAIN td) \ Unplayable
    IN  [err |-> IF \E k \in playable : TrackNotes(hp[td[k]]).err # "none"
                 THEN "ValueError" ELSE "none",
         notes |-> [k \in playable |-> TrackNotes(hp[td[k]]).notes]]

----------------------------------------------------------------------------
(* generate_all_combinations, the exhaustive loop's body, randomize_tracks *)

RemoveAt(s, i) == SubSeq(s, 1, i - 1) \o SubSeq(s, i + 1, Len(s))

RECURSIVE PermsFrom(_, _)
RECURSIVE generate_all_combinations(_)

\* the permutations that start with elements[i], elements[i+1], ...
PermsFrom(elements, i) ==
    IF i > Len(elements) THEN <<>>
    ELSE LET rest == generate_all_combinations(RemoveAt(elements, i))
         IN  [j \in 1..Len(rest) |-> <<elements[i]>> \o rest[j]]
                 \o PermsFrom(elements, i + 1)

\* list(itertools.permutations(elements)), in itertools' order
generate_all_combinations(elements) ==
    IF elements = <<>> THEN << <<>> >> ELSE PermsFrom(elements, 1)

all_button_combinations == generate_all_combinations(<<"a", "b", "c", "d">>)
all_fx_combinations == generate_all_combinations(<<"L", "R">>)

NumCombinations == Len(all_button_combinations) * Len(all_fx_combinations)

\* specific_order of the k-th round (k from 0) of the two nested loops
specific_order(k) ==
    all_button_combinations[(k \div Len(all_fx_combinations)) + 1]
        \o all_fx_combinations[(k % Len(all_fx_combinations)) + 1]

track_identifiers_inverse(lane) ==
    CASE lane = "a" -> TrackKey(3)
      [] lane = "b" -> TrackKey(4)
      [] lane = "c" -> TrackKey(5)
      [] lane = "d" -> TrackKey(6)
      [] lane = "L" -> TrackKey(2)
      [] lane = "R" -> TrackKey(7)

original_keys == <<TrackKey(1), TrackKey(8)>>

\* the playable tracks in numeric order
new_keys_numeric == <<TrackKey(2), TrackKey(3), TrackKey(4), TrackKey(5),
                      TrackKey(6), TrackKey(7)>>

\* the new keys of the zip, after original_keys
new_keys == <<TrackKey(3), TrackKey(4), TrackKey(5), TrackKey(6),
              TrackKey(2), TrackKey(7)>>

\* new_track_data as the loop body builds it for specific_order order
BuildNewTrackData(td, order) ==
    LET from == original_keys
                    \o [i \in 1..Len(order) |-> track_identifiers_inverse(order[i])]
        to == original_keys \o new_keys
    IN  [k \in {to[i] : i \in 1..Len(to)} |->
            td[from[CHOOSE i \in 1..Len(to) :
                        to[i] = k /\ \A j \in (i + 1)..Len(to) : to[j] # k]]]

tracks_to_randomize == <<TrackKey(3), TrackKey(4), TrackKey(5), TrackKey(6)>>

RECURSIVE AssignFrom(_, _, _)
\* the for loop reading the dictionary it is writing, from round i on
AssignFrom(td, shuffled, i) ==
    IF i > Len(shuffled) THEN td
    ELSE AssignFrom([td EXCEPT ![shuffled[i]] = td[TrackKey(i + 2)]],
                    shuffled, i + 1)

\* the for loop without the copy original_tracks
AssignShuffledNoCopy(td, shuffled) == AssignFrom(td, shuffled, 1)

\* track_data after the for loop of randomize_tracks, shuffled the list
\* random.shuffle left
AssignShuffled(td, shuffled) ==
    [k \in DOMAIN td |->
        IF \E i \in 1..Len(shuffled) : shuffled[i] = k
        THEN td[TrackKey((CHOOSE i \in 1..Len(shuffled) : shuffled[i] = k) + 2)]
        ELSE td[k]]

\* the swap of TRACK2 and TRACK7
SwapFx(td, swap) ==
    IF swap
    THEN [td EXCEPT ![TrackKey(2)] = td[TrackKey(7)],
                    ![TrackKey(7)] = td[TrackKey(2)]]
    ELSE td

\* randomize_tracks(track_data): the mapping the dictionary passed in holds
\* afterwards, which is also the one returned, and randomized_order
randomize_tracks(td, shuffled, swap) ==
    [track_data |-> SwapFx(AssignShuffled(td, shuffled), swap),
     randomized_order |-> shuffled \o (IF swap
                                       THEN <<TrackKey(7), TrackKey(2)>>
                                       ELSE <<TrackKey(2), TrackKey(7)>>)]

----------------------------------------------------------------------------
(* The inputs the model draws from. *)

RECURSIVE SeqsUpTo(_, _)
\* the sequences over S of length at most n
SeqsUpTo(S, n) ==
    IF n = 0 THEN {<<>>}
    ELSE LET shorter == SeqsUpTo(S, n - 1)
         IN  shorter \cup {Append(q, x) : q \in shorter, x \in S}

LineTrack(n) == HashTrack \o <<DigitChars[n + 1]>>
LineTrack23 == HashTrack \o <<"2", "3">>
LineTrackX == HashTrack \o <<"X">>
LineTrack9 == HashTrack \o <<"9">>
\* position<TAB>typeCode<TAB>reserved
NoteChip == <<"1", "\t", "0", "\t", "0">>
NoteHold == <<"2", "\t", "1", "\t", "0">>
NoteTwoFields == <<"1", "\t", "0">>
NoteFourFields == <<"1", "\t", "0", "\t", "0", "\t", "0">>
NoteIndented == <<" ">> \o NoteChip
\* measure,beat,tick<TAB>beatsPerMeasure<TAB>ticksPerBeat
BeatEntryLine == <<"1", ",", "1", ",", "0", "\t", "4", "\t", "4", "8">>
PositionLine == <<"1", ",", "1", ",", "5">>
PositionTwoFields == <<"1", ",", "1">>
PositionText == <<"a", ",", "b", ",", "c">>

BeatSection == <<BeatInfoMarker, BeatEntryLine, HashEnd>>

\* the beat-info and end-position part of an input file
Headers ==
    { BeatSection \o <<EndPositionMarker, PositionLine>>,
      BeatSection,
      BeatSection \o <<EndPositionMarker>>,
      BeatSection \o <<EndPositionMarker, HashEnd>>,
      BeatSection \o <<EndPositionMarker, PositionText>>,
      BeatSection \o <<EndPositionMarker, PositionTwoFields>>,
      BeatSection \o <<EndPositionMarker, HashEnd, EndPositionMarker,
                       PositionLine>>,
      <<EndPositionMarker, PositionLine>> }

\* the lines of the track part of an input file
BodyLines ==
    { LineTrack(3), LineTrack(7), HashEnd, NoteChip, NoteFourFields,
      LineTrack23, HashTrack }

\* the input files of a run of main: a track part, then a header part
InputFiles ==
    {body \o hdr : body \in SeqsUpTo(BodyLines, MaxBodyLen), hdr \in Headers}

----------------------------------------------------------------------------
(* main, one action per step. *)

Init ==
    /\ exists \in BOOLEAN
    /\ file \in IF exists THEN InputFiles ELSE {<<>>}
    /\ s_random \in BOOLEAN
    /\ pc = "start"
    /\ outcome = "running"
    /\ full_content = <<>>
    /\ beat_info = <<>>
    /\ end_position = <<>>
    /\ timestamps = <<>>
    /\ track_data = <<>>
    /\ heap = <<>>
    /\ structured_notes = <<>>
    /\ dir_created = FALSE
    /\ idx = 0
    /\ calls = <<>>
    /\ new_track_data = <<>>
    /\ output = <<>>
    /\ randomized_order = <<>>
    /\ ncalls = 0

\* lines 243-250: the existence test and the read of full_content
ReadInput ==
    /\ pc = "start"
    /\ IF ~exists
       THEN /\ pc' = "done"
            /\ outcome' = "NotFound"
            /\ UNCHANGED full_content
       ELSE /\ pc' = "beat_info"
            /\ full_content' = StripAll(file)
            /\ UNCHANGED outcome
    /\ UNCHANGED <<file, exists, s_random, beat_info, end_position,
                   timestamps, track_data, heap, structured_notes,
                   dir_created, idx, calls, new_track_data, output,
                   randomized_order, ncalls>>

\* line 252
ParseBeatInfo ==
    /\ pc = "beat_info"
    /\ LET r == parse_beat_info(file)
       IN  IF r.err # "none"
           THEN /\ pc' = "done"
                /\ outcome' = r.err
                /\ UNCHANGED beat_info
           ELSE /\ pc' = "end_position"
                /\ beat_info' = r.info
                /\ UNCHANGED outcome
    /\ UNCHANGED <<file, exists, s_random, full_content, end_position,
                   timestamps, track_data, heap, structured_notes,
                   dir_created, idx, calls, new_track_data, output,
                   randomized_order, ncalls>>

\* lines 253-257
GetEndPosition ==
    /\ pc = "end_position"
    /\ LET r == get_end_position(file)
       IN  IF r.err # "none"
           THEN /\ pc' = "done"
                /\ outcome' = r.err
                /\ UNCHANGED end_position
           ELSE IF r.pos = <<>>
           THEN /\ pc' = "done"
                /\ outcome' = "MissingEndPosition"
                /\ UNCHANGED end_position
           ELSE /\ pc' = "timestamps"
                /\ end_position' = r.pos
                /\ UNCHANGED outcome
    /\ UNCHANGED <<file, exists, s_random, full_content, beat_info,
                   timestamps, track_data, heap, structured_notes,
                   dir_created, idx, calls, new_track_data, output,
                   randomized_order, ncalls>>

\* line 259
GenerateTimestamps ==
    /\ pc = "timestamps"
    /\ LET r == generate_timestamps(beat_info, end_position)
       IN  IF r.err # "none"
           THEN /\ pc' = "done"
                /\ outcome' = r.err
                /\ UNCHANGED timestamps
           ELSE /\ pc' = "parse_file"
                /\ timestamps' = r.ts
                /\ UNCHANGED outcome
    /\ UNCHANGED <<file, exists, s_random, full_content, beat_info,
                   end_position, track_data, heap, structured_notes,
                   dir_created, idx, calls, new_track_data, output,
                   randomized_order, ncalls>>

\* line 261
ParseFile ==
    /\ pc = "parse_file"
    /\ LET r == parse_file(file)
       IN  IF r.err # "none"
           THEN /\ pc' = "done"
                /\ outcome' = r.err
                /\ UNCHANGED <<track_data, heap>>
           ELSE /\ pc' = "parse_notes"
                /\ track_data' = r.tracks
                /\ heap' = r.heap
                /\ UNCHANGED outcome
    /\ UNCHANGED <<file, exists, s_random, full_content, beat_info,
                   end_position, timestamps, structured_notes, dir_created,
                   idx, calls, new_track_data, output, randomized_order,
                   ncalls>>

\* lines 263-270; the two histograms are only printed
ParseNotes ==
    /\ pc = "parse_notes"
    /\ LET r == parse_notes_in_tracks(track_data, heap)
       IN  IF r.err # "none"
           THEN /\ pc' = "done"
                /\ outcome' = r.err
                /\ UNCHANGED structured_notes
           ELSE /\ pc' = "mkdir"
                /\ structured_notes' = r.notes
                /\ UNCHANGED outcome
    /\ UNCHANGED <<file, exists, s_random, full_content, beat_info,
                   end_position, timestamps, track_data, heap, dir_created,
                   idx, calls, new_track_data, output, randomized_order,
                   ncalls>>

\* lines 272-284: track_data has its eight keys, so the branch is taken
CreateDirectory ==
    /\ pc = "mkdir"
    /\ DOMAIN track_data # {}
    /\ dir_created' = TRUE
    /\ pc' = "loop"
    /\ UNCHANGED <<file, exists, s_random, outcome, full_content, beat_info,
                   end_position, timestamps, track_data, heap,
                   structured_notes, idx, calls, new_track_data, output,
                   randomized_order, ncalls>>

\* ''.join(specific_order): the letters are one character each
Suffix(order) == order

\* lines 287-300: one round of the two nested loops
ExhaustiveIteration ==
    /\ pc = "loop"
    /\ idx < NumCombinations
    /\ LET order == specific_order(idx)
           ntd == BuildNewTrackData(track_data, order)
           w == write_to_file(ntd, heap, full_content)
       IN  /\ new_track_data' = ntd
           /\ calls' = Append(calls, [suffix |-> Suffix(order),
                                      mapping |-> ntd])
           /\ output' = w.out
           /\ idx' = idx + 1
           /\ IF w.err # "none"
              THEN pc' = "done" /\ outcome' = w.err
              ELSE IF idx + 1 = NumCombinations
              THEN pc' = "done" /\ outcome' = "ok"
              ELSE UNCHANGED <<pc, outcome>>
    /\ UNCHANGED <<file, exists, s_random, full_content, beat_info,
                   end_position, timestamps, track_data, heap,
                   structured_notes, dir_created, randomized_order, ncalls>>

Next ==
    \/ ReadInput
    \/ ParseBeatInfo
    \/ GetEndPosition
    \/ GenerateTimestamps
    \/ ParseFile
    \/ ParseNotes
    \/ CreateDirectory
    \/ ExhaustiveIteration

Spec == Init /\ [][Next]_vars

----------------------------------------------------------------------------
(* Direct calls of the functions main does not reach with every input.     *)

\* what main's variables hold before main has set them
Unset ==
    /\ exists = TRUE
    /\ s_random = FALSE
    /\ outcome = "running"
    /\ full_content = <<>>
    /\ beat_info = <<>>
    /\ end_position = <<>>
    /\ timestamps = <<>>
    /\ track_data = <<>>
    /\ heap = <<>>
    /\ structured_notes = <<>>
    /\ dir_created = FALSE
    /\ idx = 0
    /\ calls = <<>>
    /\ new_track_data = <<>>
    /\ output = <<>>
    /\ randomized_order = <<>>
    /\ ncalls = 0

(* parse_file, then write_to_file with the mapping as parsed. *)

RoundTripLines ==
    { LineTrack(1), LineTrack(2), HashEnd, NoteChip, NoteIndented,
      HashTrack, LineTrackX, LineTrack9, LineTrack23 }

InitRoundTrip ==
    /\ file \in SeqsUpTo(RoundTripLines, MaxLines)
    /\ pc = "round_trip"
    /\ Unset

\* the skeleton is the stripped lines main keeps (line 250), or the lines
\* as they are in the file
RoundTrip ==
    /\ pc = "round_trip"
    /\ pc' = "done"
    /\ \E skeleton \in {StripAll(file), file} :
         LET p == parse_file(file)
             w == write_to_file(p.tracks, p.heap, skeleton)
         IN  IF p.err # "none"
             THEN /\ outcome' = p.err
                  /\ UNCHANGED <<track_data, heap, full_content, output>>
             ELSE /\ track_data' = p.tracks
                  /\ heap' = p.heap
                  /\ full_content' = skeleton
                  /\ output' = w.out
                  /\ outcome' = IF w.err # "none" THEN w.err ELSE "ok"
    /\ UNCHANGED <<file, exists, s_random, beat_info, end_position,
                   timestamps, structured_notes, dir_created, idx, calls,
                   new_track_data, randomized_order, ncalls>>

SpecRoundTrip == InitRoundTrip /\ [][RoundTrip]_vars

(* parse_notes_in_tracks on lists of raw lines. *)

RawNoteLines == {NoteChip, NoteHold, NoteTwoFields, NoteFourFields, <<>>}

\* one playable track and the two other tracks hold lines
InitNotes ==
    /\ file = <<>>
    /\ exists = TRUE
    /\ s_random = FALSE
    /\ pc = "parse_notes"
    /\ outcome = "running"
    /\ full_content = <<>>
    /\ beat_info = <<>>
    /\ end_position = <<>>
    /\ timestamps = <<>>
    /\ track_data = FreshTracks
    /\ \E t \in 2..7 :
         \E played \in SeqsUpTo(RawNoteLines, MaxNotes) :
           \E other \in SeqsUpTo(RawNoteLines, MaxNotes) :
             heap = [b \in TrackNumbers |->
                        IF b = t THEN played
                        ELSE IF b \in {1, 8} THEN other ELSE <<>>]
    /\ structured_notes = <<>>
    /\ dir_created = FALSE
    /\ idx = 0
    /\ calls = <<>>
    /\ new_track_data = <<>>
    /\ output = <<>>
    /\ randomized_order = <<>>
    /\ ncalls = 0

SpecNotes == InitNotes /\ [][ParseNotes]_vars

(* generate_timestamps on beat-info sequences and terminal positions. *)

BeatsPerMeasureChoices == {1, 2, 4}
TerminalBeats == 1..5
TerminalTicks == {0, 1, 5, 47, 48, 60}

BeatInfoEntries ==
    [measure : 1..MaxMeasure, beat : {1}, tick : {0},
     beats_per_measure : BeatsPerMeasureChoices, ticks_per_beat : {48}]

\* non-empty, non-decreasing by measure
BeatInfos ==
    {<<e>> : e \in BeatInfoEntries}
        \cup {q \in BeatInfoEntries \X BeatInfoEntries :
                  q[1].measure <= q[2].measure}

InitTimestamps ==
    /\ file = <<>>
    /\ exists = TRUE
    /\ s_random = FALSE
    /\ pc = "timestamps"
    /\ outcome = "running"
    /\ full_content = <<>>
    /\ beat_info \in BeatInfos
    /\ end_position \in (1..MaxMeasure) \X TerminalBeats \X TerminalTicks
    /\ timestamps = <<>>
    /\ track_data = <<>>
    /\ heap = <<>>
    /\ structured_notes = <<>>
    /\ dir_created = FALSE
    /\ idx = 0
    /\ calls = <<>>
    /\ new_track_data = <<>>
    /\ output = <<>>
    /\ randomized_order = <<>>
    /\ ncalls = 0

SpecTimestamps == InitTimestamps /\ [][GenerateTimestamps]_vars

(* The two producers of variants on a parsed chart: the exhaustive loop    *)
(* and randomize_tracks.                                                   *)

\* a note line at position text d
NoteAt(d, code) == <<DigitChars[d + 1], "\t", code, "\t", "0">>

\* a closed section of track n holding the given lines
Section(n, lines) == <<LineTrack(n)>> \o lines \o <<HashEnd>>

\* every track holds a line of its own
FullChart ==
    Section(1, <<NoteAt(1, "0")>>) \o Section(2, <<NoteAt(2, "1")>>)
        \o Section(3, <<NoteAt(3, "0")>>) \o Section(4, <<NoteAt(4, "0")>>)
        \o Section(5, <<NoteAt(5, "1")>>) \o Section(6, <<NoteAt(6, "0")>>)
        \o Section(7, <<NoteAt(7, "0")>>) \o Section(8, <<NoteAt(8, "0")>>)

\* three lanes share a line, the other tracks are not in the file
SparseChart ==
    Section(3, <<NoteChip, NoteHold>>) \o Section(4, <<NoteChip>>)
        \o Section(7, <<NoteChip>>)

LaneCharts == {FullChart, SparseChart}

InitLanes ==
    /\ file \in LaneCharts
    /\ pc = "lanes"
    /\ Unset

\* the chart is parsed, then handed to one of the two producers
LanesParse ==
    /\ pc = "lanes"
    /\ LET r == parse_file(file)
       IN  /\ r.err = "none"
           /\ track_data' = r.tracks
           /\ heap' = r.heap
           /\ full_content' = StripAll(file)
    /\ pc' \in {"loop", "random"}
    /\ UNCHANGED <<file, exists, s_random, outcome, beat_info, end_position,
                   timestamps, structured_notes, dir_created, idx, calls,
                   new_track_data, output, randomized_order, ncalls>>

\* the lists random.shuffle can leave in tracks_to_randomize
Shuffles ==
    LET all == generate_all_combinations(tracks_to_randomize)
    IN  {all[i] : i \in 1..Len(all)}

\* a call randomize_tracks(track_data) on the parsed mapping
RandomizeTracksCall ==
    /\ pc = "random"
    /\ ncalls < MaxRandomCalls
    /\ \E shuffled \in Shuffles, swap \in BOOLEAN :
         LET r == randomize_tracks(track_data, shuffled, swap)
         IN  /\ track_data' = r.track_data
             /\ randomized_order' = r.randomized_order
    /\ ncalls' = ncalls + 1
    /\ UNCHANGED <<file, exists, s_random, pc, outcome, full_content,
                   beat_info, end_position, timestamps, heap,
                   structured_notes, dir_created, idx, calls, new_track_data,
                   output>>

NextLanes ==
    \/ LanesParse
    \/ ExhaustiveIteration
    \/ RandomizeTracksCall

SpecLanes == InitLanes /\ [][NextLanes]_vars

----------------------------------------------------------------------------
(* The properties checked. *)

PlayableKeys == TrackKeys \ {TrackKey(1), TrackKey(8)}

\* the mapping and the lists as parse_file left them
ParsedTracks == parse_file(file).tracks
ParsedHeap == parse_file(file).heap

(* C1, identity round trip: when parse_file and write_to_file have both    *)
(* returned, the lines written with the mapping as parsed are the lines of *)
(* the input, line for line and character for character.                   *)
C1_IdentityRoundTrip ==
    (pc = "done" /\ outcome = "ok") => output = file

\* how often line occurs in the list lines
RECURSIVE Occurrences(_, _)
Occurrences(lines, line) ==
    IF lines = <<>> THEN 0
    ELSE (IF Head(lines) = line THEN 1 ELSE 0) + Occurrences(Tail(lines), line)

RECURSIVE SumOver(_, _, _, _)
\* the occurrences of line in the lists mapping m gives the tracks of keys
SumOver(keys, m, hp, line) ==
    IF keys = {} THEN 0
    ELSE LET k == CHOOSE x \in keys : TRUE
         IN  Occurrences(hp[m[k]], line) + SumOver(keys \ {k}, m, hp, line)

LinesIn(hp) == UNION {{hp[b][i] : i \in 1..Len(hp[b])} : b \in DOMAIN hp}

\* mapping m keeps tracks 1 and 8 of the parsed mapping pt and gives tracks
\* 2-7 the six buffers pt gives tracks 2-7, each exactly once; ph is the
\* parsed heap
Conserved(m, pt, ph) ==
    /\ DOMAIN m = TrackKeys
    /\ m[TrackKey(1)] = pt[TrackKey(1)]
    /\ m[TrackKey(8)] = pt[TrackKey(8)]
    /\ \A o \in PlayableKeys :
         Cardinality({k \in PlayableKeys : m[k] = pt[o]}) = 1
    /\ \A line \in LinesIn(ph) \cup LinesIn(heap) :
         SumOver(PlayableKeys, m, heap, line)
             = SumOver(PlayableKeys, pt, ph, line)

(* C2, lane conservation: every mapping built by a round of the exhaustive *)
(* loop, and the mapping every call of randomize_tracks leaves, keeps the  *)
(* buffers of TRACK1 and TRACK8 and gives TRACK2..TRACK7 the six parsed    *)
(* buffers of TRACK2..TRACK7, each exactly once, so that the multiset of   *)
(* lines over tracks 2-7 is the parsed one.                                *)
C2_LaneConservation ==
    LET pt == ParsedTracks
        ph == ParsedHeap
    IN  /\ \A i \in 1..Len(calls) : Conserved(calls[i].mapping, pt, ph)
        /\ idx > 0 => Conserved(new_track_data, pt, ph)
        /\ ncalls > 0 => Conserved(track_data, pt, ph)

\* randomize_tracks has moved the buffers of a chart whose tracks differ
C2_Witness ==
    /\ pc = "random"
    /\ ncalls = MaxRandomCalls
    /\ file = FullChart
    /\ track_data[TrackKey(3)] = ParsedTracks[TrackKey(5)]
    /\ track_data[TrackKey(2)] = ParsedTracks[TrackKey(7)]
    /\ heap[track_data[TrackKey(3)]] # heap[track_data[TrackKey(5)]]

Buttons == {"a", "b", "c", "d"}
Effects == {"L", "R"}

\* the six-letter suffixes the claim names
ValidSuffixes ==
    {s \in [1..6 -> Buttons \cup Effects] :
        /\ {s[i] : i \in 1..4} = Buttons
        /\ {s[5], s[6]} = Effects}

(* C3, permutation completeness: a run that has entered the exhaustive     *)
(* generation calls write_to_file exactly 48 times, with pairwise distinct *)
(* suffixes that are exactly the orderings of a,b,c,d followed by the      *)
(* orderings of L,R.                                                       *)
C3_PermutationCompleteness ==
    (pc = "done" /\ dir_created) =>
        /\ Len(calls) = 48
        /\ \A i, j \in 1..Len(calls) :
             calls[i].suffix = calls[j].suffix => i = j
        /\ {calls[i].suffix : i \in 1..Len(calls)} = ValidSuffixes

\* the physical tracks the letters of a suffix stand for, in order
SuffixTracks == <<TrackKey(3), TrackKey(4), TrackKey(5), TrackKey(6),
                  TrackKey(2), TrackKey(7)>>

\* the physical track a logical lane is read from
LaneTrack(lane) ==
    CASE lane = "a" -> TrackKey(3)
      [] lane = "b" -> TrackKey(4)
      [] lane = "c" -> TrackKey(5)
      [] lane = "d" -> TrackKey(6)
      [] lane = "L" -> TrackKey(2)
      [] lane = "R" -> TrackKey(7)

\* a run whose write_to_file calls all returned has written the 48 variants
CompletedRunWritesAll ==
    (pc = "done" /\ outcome = "ok") =>
        /\ Len(calls) = 48
        /\ {calls[i].suffix : i \in 1..Len(calls)} = ValidSuffixes

(* C4, the file name describes the content: in every write_to_file call of *)
(* the exhaustive loop with suffix s1..s6, the mapping gives TRACK3,       *)
(* TRACK4, TRACK5, TRACK6, TRACK2, TRACK7 the parsed buffers of the lanes  *)
(* s1..s6, with their lines as parsed; s1..s4 are button lanes and s5, s6  *)
(* effect lanes.                                                           *)
C4_NameDescribesContent ==
    LET pt == ParsedTracks
        ph == ParsedHeap
    IN  \A i \in 1..Len(calls) :
            LET s == calls[i].suffix
                m == calls[i].mapping
            IN  /\ Len(s) = 6
                /\ \A j \in 1..4 : s[j] \in Buttons
                /\ \A j \in 5..6 : s[j] \in Effects
                /\ \A j \in 1..6 :
                     /\ m[SuffixTracks[j]] = pt[LaneTrack(s[j])]
                     /\ heap[m[SuffixTracks[j]]] = ph[pt[LaneTrack(s[j])]]

\* a variant with every lane moved has been written for a chart whose
\* TRACK3 holds lines
C4_Witness ==
    /\ calls # <<>>
    /\ calls[Len(calls)].suffix = <<"d", "c", "b", "a", "R", "L">>
    /\ heap[track_data[TrackKey(3)]] # <<>>

(* C5, the mode flag selects the mode: a completed run with the             *)
(* single-random flag set has written one variant, drawn by                *)
(* randomize_tracks; a completed run with the flag unset has written the   *)
(* 48 exhaustive variants and drawn none.                                  *)
C5_FlagSelectsMode ==
    (pc = "done" /\ outcome = "ok") =>
        IF s_random
        THEN Len(calls) = 1 /\ ncalls = 1
        ELSE Len(calls) = 48 /\ ncalls = 0

\* the lines of f that hold the end-position marker
MarkerLines(f) ==
    {i \in 1..Len(f) : startswith(strip(f[i]), EndPositionMarker)}

\* the first three comma-separated fields of line are three integers
ThreeIntegers(line) ==
    LET fields == split(strip(line), ",")
    IN  Len(fields) >= 3 /\ \A k \in 1..3 : IsInt(fields[k])

\* the marker is absent, is the last line, is followed by a "#END" line, or
\* is followed by a line that does not start with three integers
EndPositionMissing(f) ==
    \/ MarkerLines(f) = {}
    \/ LET i == CHOOSE m \in MarkerLines(f) : \A n \in MarkerLines(f) : m <= n
       IN  \/ i = Len(f)
           \/ startswith(strip(f[i + 1]), HashEnd)
           \/ ~ThreeIntegers(f[i + 1])

(* C6, a missing end position aborts with no partial output: a run on an   *)
(* existing input whose end position is missing ends reported as           *)
(* MissingEndPosition, with no output directory and no write_to_file call. *)
C6_MissingEndPositionAborts ==
    (pc = "done" /\ exists /\ EndPositionMissing(file)) =>
        /\ outcome = "MissingEndPosition"
        /\ ~dir_created
        /\ calls = <<>>

\* line is "#TRACK" followed by a single digit 1-8
ExactHeader(line) ==
    Len(line) = 7 /\ SubSeq(line, 1, 6) = HashTrack /\ line[7] \in TrackDigits

(* C7, malformed track headers are never an error: parse_file and          *)
(* write_to_file return normally on every input, and only a line "#TRACK"  *)
(* followed by a single digit 1-8 opens a track section: an input without  *)
(* such a line leaves every track empty and is written as it was read.     *)
C7_MalformedHeadersNoError ==
    pc = "done" =>
        /\ outcome = "ok"
        /\ (\A i \in 1..Len(file) : ~ExactHeader(strip(file[i]))) =>
               /\ \A b \in TrackNumbers : heap[b] = <<>>
               /\ output = full_content

\* the tab-separated fields of line, counted by its tabs
FieldCount(line) == Cardinality({i \in 1..Len(line) : line[i] = "\t"}) + 1

\* one event per line of at least three fields, in the order of the lines
RECURSIVE EventsOf(_)
EventsOf(lines) ==
    IF lines = <<>> THEN <<>>
    ELSE IF FieldCount(Head(lines)) >= 3
    THEN <<[timestamp |-> split(Head(lines), "\t")[1],
            type |-> IF split(Head(lines), "\t")[2] = <<"0">> THEN "chip"
                     ELSE "hold"]>> \o EventsOf(Tail(lines))
    ELSE EventsOf(Tail(lines))

(* C8, note classification is total and order-preserving:                  *)
(* parse_notes_in_tracks returns normally, with for each of tracks 2-7 one *)
(* event per line of at least 3 tab-separated fields, in line order, chip  *)
(* when the second field is "0" and hold otherwise, and with nothing for   *)
(* tracks 1 and 8.                                                         *)
C8_ClassificationTotal ==
    pc # "parse_notes" =>
        /\ pc = "mkdir"
        /\ DOMAIN structured_notes = PlayableKeys
        /\ \A k \in PlayableKeys :
             structured_notes[k] = EventsOf(heap[track_data[k]])

\* the position a timestamp string stands for
PositionOf(ts) ==
    LET f == split(ts, ",")
    IN  <<ToInt(f[1]), ToInt(f[2]), ToInt(f[3])>>

Positions == [i \in 1..Len(timestamps) |-> PositionOf(timestamps[i])]

\* beatsPerMeasure of the segment in force in measure m
BeatsInForce(m) ==
    LET started == {i \in 1..Len(beat_info) : beat_info[i].measure <= m}
    IN  IF started = {} THEN beat_info[1].beats_per_measure
        ELSE beat_info[CHOOSE i \in started : \A j \in started : j <= i]
                 .beats_per_measure

\* first element, order and upper bound of the grid, and the spec's example
GridShape ==
    /\ outcome = "running"
    /\ timestamps # <<>>
    /\ timestamps[1] = <<"0", "0", "1", ",", "0", "1", ",", "0", "0">>
    /\ \A i \in 1..(Len(timestamps) - 1) : PosGT(Positions[i + 1], Positions[i])
    /\ \A i \in 1..Len(timestamps) : ~PosGT(Positions[i], end_position)
    /\ (/\ Len(beat_info) = 1
        /\ beat_info[1].beats_per_measure = 4
        /\ end_position = <<1, 1, 5>>)
           => timestamps = << <<"0", "0", "1", ",", "0", "1", ",", "0", "0">>,
                              <<"0", "0", "1", ",", "0", "1", ",", "0", "1">>,
                              <<"0", "0", "1", ",", "0", "1", ",", "0", "2">>,
                              <<"0", "0", "1", ",", "0", "1", ",", "0", "3">>,
                              <<"0", "0", "1", ",", "0", "1", ",", "0", "4">>,
                              <<"0", "0", "1", ",", "0", "1", ",", "0", "5">> >>

(* C9 as claimed: the grid starts at (1,1,0), is strictly increasing,      *)
(* never exceeds the terminal position, and its last element is the        *)
(* terminal position itself, for every terminal position.                  *)
C9_GridEndsAtTerminal ==
    pc = "parse_file" =>
        /\ GridShape
        /\ Positions[Len(timestamps)] = end_position

(* C9 as amended: the grid starts at (1,1,0), is strictly increasing and   *)
(* never exceeds the terminal position; its last element is the terminal   *)
(* position itself when the terminal's tick is at most 47 and its beat at  *)
(* most the beatsPerMeasure in force in its measure, otherwise it is tick  *)
(* 47 of the terminal's beat (tick out of range) or of the measure's last  *)
(* beat (beat out of range).                                               *)
C9_GridEndsAtLastGridPosition ==
    pc = "parse_file" =>
        /\ GridShape
        /\ LET beats == BeatsInForce(end_position[1])
               last == Positions[Len(timestamps)]
           IN  IF end_position[2] > beats
               THEN last = <<end_position[1], beats, 47>>
               ELSE IF end_position[3] > 47
               THEN last = <<end_position[1], end_position[2], 47>>
               ELSE last = end_position

\* a grid over two segments whose terminal position lies past tick 47
C9_Witness ==
    /\ pc = "parse_file"
    /\ Len(beat_info) = 2
    /\ beat_info[1].beats_per_measure # beat_info[2].beats_per_measure
    /\ end_position = <<2, 2, 48>>
    /\ Len(timestamps) > 48

(* C10, originals are never mutated: after any round of the exhaustive     *)
(* loop and after any call of randomize_tracks the parsed mapping gives    *)
(* every track the buffer, and the buffer the lines, it had after parsing. *)
C10_OriginalsNeverMutated ==
    pc \in {"loop", "random", "done"} =>
        /\ track_data = ParsedTracks
        /\ heap = ParsedHeap

============================================================================
